---- MODULE Spec2Model ----
(***************************************************************************)
(* Model of Portfolio_tracker.py: a menu-driven stock portfolio tracker    *)
(* that keeps one portfolio document in memory, re-values it with prices   *)
(* fetched from an external source and writes it to portfolio.json after   *)
(* every mutation.                                                         *)
(*                                                                         *)
(* Text typed by the user is a sequence of one-character strings.  Prices  *)
(* and balances are integers counted in thousandths of a currency unit, so *)
(* that rounding to two decimals is a real operation (to a multiple of     *)
(* ten).  Each process running main() is an instance; all instances share  *)
(* the one persistence file.                                               *)
(***************************************************************************)
EXTENDS Integers, Sequences, FiniteSets, TLC

\* ------------------------------------------------------------------ bounds

\* Number of steps of main() (the load, then menu operations) that the model
\* explores of an instance running alone.
MaxSteps == 3

\* The same, for each of two instances running side by side.
MaxStepsTwo == 2

\* ------------------------------------------------------------ input alphabets

\* The processes running main().
Instances == {1, 2}

\* fetch_stock_data's failure result.
None == -1

\* Closing prices the price source may report (thousandths): zero, a price
\* whose odd multiples fall on a rounding tie, and a round price.
Prices == {0, 1005, 2500}

\* Everything fetch_stock_data can return.
FetchResults == Prices \cup {None}

\* What the user may type at the menu prompt.
ChoiceInputs ==
  { <<"1">>, <<"2">>, <<"3">>, <<"4">>, <<" ", "4", " ">>, <<"5">>, <<"x">>,
    <<>>, <<"1", "2">> }

\* What the user may type as a stock symbol.
SymbolInputs ==
  { <<" ", "a", "B">>, <<"b", " ">> }

\* What the user may type as a quantity.
QuantityInputs ==
  { <<"1">>, <<"0">>, <<"-", "1">>, <<" ", "0", "1", " ">>,
    <<"1", ".", "5">>, <<"-">>, <<>> }

\* What the user may type at the export prompt.
ExportInputs ==
  { <<"y", "e", "s">>, <<" ", "Y", "e", "S">>, <<"n", "o">> }

\* ------------------------------------------------------------ text helpers

\* str.upper on one character.
UpperChar(c) ==
  CASE c = "a" -> "A"
    [] c = "b" -> "B"
    [] c = "x" -> "X"
    [] c = "y" -> "Y"
    [] c = "e" -> "E"
    [] c = "s" -> "S"
    [] c = "n" -> "N"
    [] c = "o" -> "O"
    [] OTHER -> c

\* str.lower on one character.
LowerChar(c) ==
  CASE c = "A" -> "a"
    [] c = "B" -> "b"
    [] c = "X" -> "x"
    [] c = "Y" -> "y"
    [] c = "E" -> "e"
    [] c = "S" -> "s"
    [] c = "N" -> "n"
    [] c = "O" -> "o"
    [] OTHER -> c

\* str.upper
upper(s) == [k \in 1..Len(s) |-> UpperChar(s[k])]

\* str.lower
lower(s) == [k \in 1..Len(s) |-> LowerChar(s[k])]

RECURSIVE lstrip(_)
lstrip(s) == IF s # <<>> /\ Head(s) = " " THEN lstrip(Tail(s)) ELSE s

RECURSIVE rstrip(_)
rstrip(s) ==
  IF s # <<>> /\ s[Len(s)] = " " THEN rstrip(SubSeq(s, 1, Len(s) - 1)) ELSE s

\* str.strip
strip(s) == rstrip(lstrip(s))

Digits == {"0", "1", "5"}

DigitValue(c) == CASE c = "0" -> 0 [] c = "1" -> 1 [] c = "5" -> 5

RECURSIVE DigitsValue(_)
DigitsValue(s) ==
  IF s = <<>> THEN 0
  ELSE 10 * DigitsValue(SubSeq(s, 1, Len(s) - 1)) + DigitValue(s[Len(s)])

\* int(text): surrounding blanks are ignored, one sign is allowed, and what
\* remains must be a nonempty run of digits; anything else raises ValueError.
IntBody(s) ==
  LET t == strip(s)
  IN IF t # <<>> /\ Head(t) \in {"-", "+"} THEN Tail(t) ELSE t

IntRaises(s) ==
  LET b == IntBody(s)
  IN b = <<>> \/ \E k \in 1..Len(b) : b[k] \notin Digits

IntValue(s) ==
  LET t == strip(s)
      v == DigitsValue(IntBody(s))
  IN IF t # <<>> /\ Head(t) = "-" THEN 0 - v ELSE v

\* ------------------------------------------------------------ arithmetic

RECURSIVE SumOver(_, _)
\* Sum of f[x] over the finite set S.
SumOver(S, f) ==
  IF S = {} THEN 0
  ELSE LET x == CHOOSE y \in S : TRUE IN f[x] + SumOver(S \ {x}, f)

\* Quotient n/d (d > 0) rounded to the nearest integer, ties to even.
RoundDiv(n, d) ==
  LET q == n \div d
      r == n % d
  IN IF 2 * r < d THEN q
     ELSE IF 2 * r > d THEN q + 1
     ELSE IF q % 2 = 0 THEN q ELSE q + 1

\* round(x, 2) on a value in thousandths: the nearest multiple of ten.
Round2(x) == 10 * RoundDiv(x, 10)

\* Truth value of a fetched price in `if current_price` / `if not
\* current_price`: None and 0 are both false.
Truthy(price) == price # None /\ price # 0

\* ------------------------------------------------------------ the document

\* The symbols a holding can be stored under: main() strips and uppercases
\* what was typed.
Symbols == { upper(strip(s)) : s \in SymbolInputs }

\* load_portfolio's default when no file exists.
EmptyPortfolio == [stocks |-> <<>>, total_balance |-> 0]

\* json.dump: the document as text, one entry per key of "stocks".
dump(p) ==
  [stocks |-> { [key |-> s,
                 quantity |-> p.stocks[s].quantity,
                 purchase_price |-> p.stocks[s].purchase_price] :
                s \in DOMAIN p.stocks },
   total_balance |-> p.total_balance]

\* json.load: the text back into a mapping from symbol to holding.
loads(doc) ==
  [stocks |->
     [s \in { e.key : e \in doc.stocks } |->
        LET e == CHOOSE x \in doc.stocks : x.key = s
        IN [quantity |-> e.quantity, purchase_price |-> e.purchase_price]],
   total_balance |-> doc.total_balance]

\* The persistence file is <<>> when it does not exist and <<text>> when it
\* does.
load_portfolio(f) == IF f # <<>> THEN loads(f[1]) ELSE EmptyPortfolio

\* save_portfolio as it would be if it kept the entries of the old file that
\* the saved document lacks.
save_portfolio_Merging(f, p) ==
  IF f = <<>> THEN << dump(p) >>
  ELSE << [stocks |-> dump(p).stocks \cup
                      { e \in f[1].stocks : e.key \notin DOMAIN p.stocks },
           total_balance |-> p.total_balance] >>

\* The file after save_portfolio: opened with "w", so the old content f is
\* discarded.
save_portfolio(f, p) == << dump(p) >>

\* Files a previous run of the program may have left behind.
InitialFiles ==
  { <<>>,
    << dump(EmptyPortfolio) >>,
    << dump([stocks |-> (<<"B">> :> [quantity |-> 1, purchase_price |-> 2500]),
             total_balance |-> 2500]) >> }

\* ------------------------------------------------------------ valuation

\* update_total_balance as it would be if a holding whose fetch fails were
\* valued at its purchase price.
update_total_balance_Fallback(p, prices) ==
  LET value == [s \in DOMAIN p.stocks |->
                  p.stocks[s].quantity *
                    (IF Truthy(prices[s]) THEN prices[s]
                     ELSE p.stocks[s].purchase_price)]
  IN [p EXCEPT !.total_balance = Round2(SumOver(DOMAIN p.stocks, value))]

\* update_total_balance: prices[s] is what fetch_stock_data returns for s in
\* this pass.
update_total_balance(p, prices) ==
  LET value == [s \in DOMAIN p.stocks |->
                  IF Truthy(prices[s]) THEN p.stocks[s].quantity * prices[s]
                  ELSE 0]
  IN [p EXCEPT !.total_balance = Round2(SumOver(DOMAIN p.stocks, value))]

\* add_holding as it would be if a repeated add also took the new price.
add_holding_Repricing(stocks, symbol, quantity, current_price) ==
  IF symbol \in DOMAIN stocks
  THEN [stocks EXCEPT ![symbol] =
          [quantity |-> @.quantity + quantity,
           purchase_price |-> current_price]]
  ELSE stocks @@
       (symbol :> [quantity |-> quantity, purchase_price |-> current_price])

\* The "stocks" mapping after add_stock's branch on `symbol in stocks`.
add_holding(stocks, symbol, quantity, current_price) ==
  IF symbol \in DOMAIN stocks
  THEN [stocks EXCEPT ![symbol].quantity = @ + quantity]
  ELSE stocks @@
       (symbol :> [quantity |-> quantity, purchase_price |-> current_price])


\* The prices fetched in a recompute pass over the holdings `stocks`.
pass_over(stocks, prices) == [s \in DOMAIN stocks |-> prices[s]]

\* What an operation that changes nothing reports: no save, nfetch fetches.
no_change(p, op, nfetch) ==
  [portfolio |-> p, saved |-> FALSE, nfetch |-> nfetch, fetched |-> <<>>,
   op |-> op]

\* add_stock as it would be without the `return` of line 48: the failure is
\* reported, and the recompute and the save follow all the same.
add_stock_NoReturn(p, sym, quantity, current_price, prices) ==
  LET symbol == upper(sym)
      stocks == IF Truthy(current_price)
                THEN add_holding(p.stocks, symbol, quantity, current_price)
                ELSE p.stocks
  IN [portfolio |-> update_total_balance([p EXCEPT !.stocks = stocks], prices),
      saved |-> TRUE,
      nfetch |-> 1 + Cardinality(DOMAIN stocks),
      fetched |-> pass_over(stocks, prices),
      op |-> IF Truthy(current_price) THEN "added" ELSE "add_failed"]

\* add_stock as it would be if line 46 tested `current_price is None`.
add_stock_NoneTest(p, sym, quantity, current_price, prices) ==
  LET symbol == upper(sym)
  IN IF current_price = None
     THEN no_change(p, "add_failed", 1)
     ELSE LET stocks == add_holding(p.stocks, symbol, quantity, current_price)
          IN [portfolio |->
                update_total_balance([p EXCEPT !.stocks = stocks], prices),
              saved |-> TRUE,
              nfetch |-> 1 + Cardinality(DOMAIN stocks),
              fetched |-> pass_over(stocks, prices),
              op |-> "added"]

\* add_stock: current_price is the result of its own fetch, prices those of
\* the recompute pass.  The result names the portfolio afterwards, whether
\* save_portfolio was called, how many fetches were made and what the
\* recompute pass fetched.
add_stock(p, sym, quantity, current_price, prices) ==
  LET symbol == upper(sym)
  IN IF ~Truthy(current_price)
     THEN no_change(p, "add_failed", 1)
     ELSE LET stocks == add_holding(p.stocks, symbol, quantity, current_price)
          IN [portfolio |->
                update_total_balance([p EXCEPT !.stocks = stocks], prices),
              saved |-> TRUE,
              nfetch |-> 1 + Cardinality(DOMAIN stocks),
              fetched |-> pass_over(stocks, prices),
              op |-> "added"]

\* remove_stock as it would be without the call of update_total_balance.
remove_stock_NoRecompute(p, sym, prices) ==
  LET symbol == upper(sym)
  IN IF symbol \in DOMAIN p.stocks
     THEN LET stocks == [s \in DOMAIN p.stocks \ {symbol} |-> p.stocks[s]]
          IN [portfolio |-> [p EXCEPT !.stocks = stocks],
              saved |-> TRUE,
              nfetch |-> 0,
              fetched |-> pass_over(stocks, prices),
              op |-> "removed"]
     ELSE no_change(p, "not_found", 0)

\* remove_stock as it would be without the call of save_portfolio.
remove_stock_NoSave(p, sym, prices) ==
  LET symbol == upper(sym)
  IN IF symbol \in DOMAIN p.stocks
     THEN LET stocks == [s \in DOMAIN p.stocks \ {symbol} |-> p.stocks[s]]
          IN [portfolio |->
                update_total_balance([p EXCEPT !.stocks = stocks], prices),
              saved |-> FALSE,
              nfetch |-> Cardinality(DOMAIN stocks),
              fetched |-> pass_over(stocks, prices),
              op |-> "removed"]
     ELSE no_change(p, "not_found", 0)

\* remove_stock, with the same result shape.
remove_stock(p, sym, prices) ==
  LET symbol == upper(sym)
  IN IF symbol \in DOMAIN p.stocks
     THEN LET stocks == [s \in DOMAIN p.stocks \ {symbol} |-> p.stocks[s]]
          IN [portfolio |->
                update_total_balance([p EXCEPT !.stocks = stocks], prices),
              saved |-> TRUE,
              nfetch |-> Cardinality(DOMAIN stocks),
              fetched |-> pass_over(stocks, prices),
              op |-> "removed"]
     ELSE no_change(p, "not_found", 0)

\* One row of view_portfolio's table.  The percentage is in hundredths of a
\* percent; it divides by purchase_price.
view_row(details, current_price) ==
  LET quantity == details.quantity
      purchase_price == details.purchase_price
  IN [Quantity |-> quantity,
      PurchasePrice |-> Round2(purchase_price),
      CurrentPrice |-> Round2(current_price),
      CurrentValue |-> Round2(quantity * current_price),
      ProfitLoss |-> Round2((current_price - purchase_price) * quantity),
      ProfitLossPct |->
        RoundDiv((current_price - purchase_price) * 10000, purchase_price)]

\* The rows view_portfolio collects: holdings whose fetch fails are skipped.
view_rows(p, prices) ==
  [s \in { t \in DOMAIN p.stocks : Truthy(prices[t]) } |->
     view_row(p.stocks[s], prices[s])]

\* view_total as it would be if the view recomputed the balance from the
\* prices it has just fetched.
view_total_Recomputed(p, prices) ==
  Round2(update_total_balance(p, prices).total_balance)

\* The total view_portfolio prints.
view_total(p, prices) == Round2(p.total_balance)

\* The answer to the export prompt, as view_portfolio tests it.
wants_export(answer) == lower(strip(answer)) = <<"y", "e", "s">>

\* main's branch for choice "1" as it would be if the price were fetched
\* before the quantity is parsed.
main_add_FetchFirst(p, symIn, qtyIn, current_price, prices) ==
  IF IntRaises(qtyIn) THEN no_change(p, "invalid_input", 1)
  ELSE add_stock(p, upper(strip(symIn)), IntValue(qtyIn), current_price,
                 prices)

\* main's branch for choice "1": the symbol is stripped and uppercased, the
\* quantity parsed, and add_stock called unless int() raised.
main_add(p, symIn, qtyIn, current_price, prices) ==
  IF IntRaises(qtyIn) THEN no_change(p, "invalid_input", 0)
  ELSE add_stock(p, upper(strip(symIn)), IntValue(qtyIn), current_price,
                 prices)

\* main's branch for choice "2".
main_remove(p, symIn, prices) == remove_stock(p, upper(strip(symIn)), prices)

\* ------------------------------------------------------------------ state

VARIABLES
  pc,         \* pc[i]: where instance i is: "start", "menu" or "done"
  portfolio,  \* portfolio[i]: the document instance i holds in memory
  file,       \* portfolio.json, shared by all instances
  hist,       \* hist[i][s]: history of holding s of instance i: the price
              \* its purchase_price was set from and the quantities added
  out,        \* what the latest step was given, did and showed
  left        \* left[i]: steps of instance i the model still explores

vars == <<pc, portfolio, file, hist, out, left>>

\* A step that involves no holding, no fetch and no table.
Report(i, op, choice) ==
  [inst |-> i, op |-> op, choice |-> choice, symbol |-> <<>>, qtyIn |-> <<>>,
   price |-> None, nfetch |-> 0, fetched |-> <<>>, saved |-> FALSE,
   rows |-> <<>>, total |-> 0, exported |-> FALSE]

Tick(i) == left[i] > 0 /\ left' = [left EXCEPT ![i] = @ - 1]

\* What is common to every start: nothing loaded yet, and the file as some
\* earlier run left it.
Start ==
  /\ pc = [i \in Instances |-> "start"]
  /\ portfolio = [i \in Instances |-> EmptyPortfolio]
  /\ file \in InitialFiles
  /\ hist = [i \in Instances |-> <<>>]
  /\ out = Report(0, "init", <<>>)

\* One instance, the sole reader and writer of the file.
Init == Start /\ left = [i \in Instances |-> IF i = 1 THEN MaxSteps ELSE 0]

\* Two instances against the same file, interleaved step by step.
InitTwo == Start /\ left = [i \in Instances |-> MaxStepsTwo]

\* main, line 114: portfolio = load_portfolio()
Load(i) ==
  /\ pc[i] = "start"
  /\ Tick(i)
  /\ pc' = [pc EXCEPT ![i] = "menu"]
  /\ portfolio' = [portfolio EXCEPT ![i] = load_portfolio(file)]
  /\ hist' = [hist EXCEPT ![i] =
                [s \in DOMAIN portfolio'[i].stocks |->
                   [first |-> portfolio'[i].stocks[s].purchase_price,
                    sum |-> portfolio'[i].stocks[s].quantity]]]
  /\ out' = Report(i, "load", <<>>)
  /\ UNCHANGED file

\* What the user may type that main takes for the given menu option.
Choosing(option) == { c \in ChoiceInputs : strip(c) = << option >> }

\* What the user may type that main takes for none of the options.
ChoosingNothing == ChoiceInputs \ UNION { Choosing(o) : o \in {"1", "2", "3", "4"} }

\* The effect of an add or remove whose result is r.
Apply(i, r) ==
  /\ portfolio' = [portfolio EXCEPT ![i] = r.portfolio]
  /\ file' = IF r.saved THEN save_portfolio(file, r.portfolio) ELSE file

\* What a step of choice "1" or "2" with result r leaves in `out`.
Outcome(i, c, symIn, qtyIn, price, r) ==
  [Report(i, r.op, c) EXCEPT
     !.symbol = upper(strip(symIn)),
     !.qtyIn = qtyIn,
     !.price = IF r.nfetch > 0 THEN price ELSE None,
     !.nfetch = r.nfetch,
     !.fetched = r.fetched,
     !.saved = r.saved]

\* Choice "1" with a quantity int() rejects: main catches the ValueError.
\* No fetch is made on this path, so none is given an outcome.
AddInvalid(i) ==
  /\ pc[i] = "menu"
  /\ Tick(i)
  /\ \E c \in Choosing("1"), symIn \in SymbolInputs,
        qtyIn \in { q \in QuantityInputs : IntRaises(q) } :
       /\ LET r == main_add(portfolio[i], symIn, qtyIn, None,
                            [s \in Symbols |-> None])
          IN /\ Apply(i, r)
             /\ out' = Outcome(i, c, symIn, qtyIn, None, r)
  /\ UNCHANGED <<pc, hist>>

\* Choice "1" with an integer quantity: add_stock runs, with `price` the
\* result of its fetch and `prices` those of the recompute pass.
Add(i) ==
  /\ pc[i] = "menu"
  /\ Tick(i)
  /\ \E c \in Choosing("1"), symIn \in SymbolInputs,
        qtyIn \in { q \in QuantityInputs : ~IntRaises(q) },
        price \in FetchResults :
     \E prices \in [DOMAIN portfolio[i].stocks \cup {upper(strip(symIn))}
                      -> FetchResults] :
       /\ LET symbol == upper(strip(symIn))
              r == main_add(portfolio[i], symIn, qtyIn, price, prices)
          IN /\ Apply(i, r)
             /\ hist' =
                  IF r.op # "added" THEN hist
                  ELSE IF symbol \in DOMAIN hist[i]
                  THEN [hist EXCEPT ![i][symbol].sum = @ + IntValue(qtyIn)]
                  ELSE [hist EXCEPT ![i] =
                          @ @@ (symbol :> [first |-> price,
                                           sum |-> IntValue(qtyIn)])]
             /\ out' = Outcome(i, c, symIn, qtyIn, price, r)
  /\ UNCHANGED pc

\* Choice "2": remove_stock runs.
Remove(i) ==
  /\ pc[i] = "menu"
  /\ Tick(i)
  /\ \E c \in Choosing("2"), symIn \in SymbolInputs,
        prices \in [DOMAIN portfolio[i].stocks -> FetchResults] :
       /\ LET symbol == upper(strip(symIn))
              r == main_remove(portfolio[i], symIn, prices)
          IN /\ Apply(i, r)
             /\ hist' =
                  IF r.op # "removed" THEN hist
                  ELSE [hist EXCEPT ![i] =
                          [s \in DOMAIN @ \ {symbol} |-> @[s]]]
             /\ out' = Outcome(i, c, symIn, <<>>, None, r)
  /\ UNCHANGED pc

\* Choice "3" on an empty portfolio: only the message.
ViewEmpty(i) ==
  /\ pc[i] = "menu"
  /\ Tick(i)
  /\ DOMAIN portfolio[i].stocks = {}
  /\ \E c \in Choosing("3") : out' = Report(i, "view_empty", c)
  /\ UNCHANGED <<pc, portfolio, file, hist>>

\* Choice "3" with holdings: the table, the cached total, the export prompt.
View(i) ==
  /\ pc[i] = "menu"
  /\ Tick(i)
  /\ DOMAIN portfolio[i].stocks # {}
  /\ \E c \in Choosing("3"), answer \in ExportInputs,
        prices \in [DOMAIN portfolio[i].stocks -> FetchResults] :
       /\ out' = [Report(i, "viewed", c) EXCEPT
                    !.nfetch = Cardinality(DOMAIN portfolio[i].stocks),
                    !.fetched = pass_over(portfolio[i].stocks, prices),
                    !.rows = view_rows(portfolio[i], prices),
                    !.total = view_total(portfolio[i], prices),
                    !.exported = wants_export(answer)]
  /\ UNCHANGED <<pc, portfolio, file, hist>>

\* Choice "4": the loop ends.
Exit(i) ==
  /\ pc[i] = "menu"
  /\ Tick(i)
  /\ \E c \in Choosing("4") : out' = Report(i, "exit", c)
  /\ pc' = [pc EXCEPT ![i] = "done"]
  /\ UNCHANGED <<portfolio, file, hist>>

\* Any other choice: the error message, and the menu again.
InvalidChoice(i) ==
  /\ pc[i] = "menu"
  /\ Tick(i)
  /\ \E c \in ChoosingNothing : out' = Report(i, "invalid_choice", c)
  /\ UNCHANGED <<pc, portfolio, file, hist>>

Next ==
  \E i \in Instances :
    \/ Load(i)
    \/ AddInvalid(i)
    \/ Add(i)
    \/ Remove(i)
    \/ ViewEmpty(i)
    \/ View(i)
    \/ Exit(i)
    \/ InvalidChoice(i)

Spec == Init /\ [][Next]_vars

SpecTwo == InitTwo /\ [][Next]_vars

\* ------------------------------------------------------------------ claims

AB == <<"A", "B">>

\* The holdings instance i has in memory.
Held(i) == DOMAIN portfolio[i].stocks

\* The value of the holdings `stocks` at the fetched prices: a holding whose
\* fetch failed counts zero.
ExactValue(stocks, fetched) ==
  SumOver(DOMAIN stocks,
          [s \in DOMAIN stocks |->
             IF fetched[s] = None THEN 0
             ELSE stocks[s].quantity * fetched[s]])

\* That value rounded to two decimals.
PassValue(stocks, fetched) == Round2(ExactValue(stocks, fetched))

\* This step is a step of instance i at the menu.
MenuStep(i) == pc[i] = "menu" /\ left'[i] # left[i]

\* C1: when the fetch made by add_stock returns no price, the step leaves
\* every in-memory portfolio and the file as they were and does not call
\* save_portfolio.
C1_FailedFetchAddIsNoOp ==
  [][\A i \in Instances :
       (MenuStep(i) /\ out'.choice = <<"1">> /\ out'.nfetch > 0
          /\ out'.price = None)
       => /\ portfolio' = portfolio
          /\ file' = file
          /\ ~out'.saved
          /\ out'.nfetch = 1]_vars

\* C1 happens: an add whose fetch failed, on a portfolio with a holding.
C1_Witness ==
  /\ out.op = "add_failed"
  /\ out.price = None
  /\ Held(out.inst) # {}
  /\ file # <<>>

\* C2: a symbol has one holding; its quantity is the sum of the quantities
\* added to it and its purchase_price the price its first add fetched (for a
\* holding read from the file: the quantity and price read), whatever prices
\* later adds fetched.
C2_ReAddKeepsFirstPrice ==
  \A i \in Instances :
    /\ Held(i) = DOMAIN hist[i]
    /\ \A s \in Held(i) :
         /\ portfolio[i].stocks[s].quantity = hist[i][s].sum
         /\ portfolio[i].stocks[s].purchase_price = hist[i][s].first

\* C2 happens: a holding created in this run has just been added to again,
\* at another price than its first.
C2_Witness ==
  /\ out.op = "added"
  /\ out.symbol = AB
  /\ hist[out.inst][AB].first # out.price
  /\ hist[out.inst][AB].sum = 2
  /\ portfolio[out.inst].stocks[AB].quantity = 2

\* C3: removing a symbol that is not held changes neither stocks nor
\* total_balance and writes nothing; removing a held symbol deletes that
\* entry alone, leaves the other holdings as they were, sets total_balance to
\* the value of the remaining holdings at the prices fetched in the pass, and
\* saves the result.
C3_RemoveCorrect ==
  [][\A i \in Instances :
       (MenuStep(i) /\ out'.choice = <<"2">>)
       => LET s == out'.symbol
              old == portfolio[i]
              new == portfolio'[i]
          IN IF s \notin DOMAIN old.stocks
             THEN /\ out'.op = "not_found"
                  /\ new = old
                  /\ file' = file
                  /\ ~out'.saved
             ELSE /\ out'.op = "removed"
                  /\ DOMAIN new.stocks = DOMAIN old.stocks \ {s}
                  /\ \A t \in DOMAIN new.stocks : new.stocks[t] = old.stocks[t]
                  /\ DOMAIN out'.fetched = DOMAIN new.stocks
                  /\ new.total_balance = PassValue(new.stocks, out'.fetched)
                  /\ out'.saved
                  /\ file' = << dump(new) >>]_vars

\* C3 happens: a holding was removed, another one remains and has a value.
C3_Witness ==
  /\ out.op = "removed"
  /\ Held(out.inst) # {}
  /\ portfolio[out.inst].total_balance # 0

\* C4 as stated: after a successful add and after the removal of a held
\* symbol, total_balance equals the sum over the holdings now held of
\* quantity times the price fetched for the holding in the recompute pass, a
\* failed fetch counting zero.
C4_BalanceIsExactSum ==
  out.op \in {"added", "removed"}
  => /\ DOMAIN out.fetched = Held(out.inst)
     /\ portfolio[out.inst].total_balance =
          ExactValue(portfolio[out.inst].stocks, out.fetched)

\* C4 amended: after a successful add and after the removal of a held symbol,
\* total_balance equals that sum rounded to two decimals.
C4_BalanceIsPassValue ==
  out.op \in {"added", "removed"}
  => /\ DOMAIN out.fetched = Held(out.inst)
     /\ portfolio[out.inst].total_balance =
          PassValue(portfolio[out.inst].stocks, out.fetched)

\* C4 happens: two holdings, the fetch of one failed in the pass, and the
\* balance is the other one's value.
C4_Witness ==
  /\ out.op = "added"
  /\ Cardinality(Held(out.inst)) = 2
  /\ \E s \in Held(out.inst) :
       /\ out.fetched[s] = None
       /\ portfolio[out.inst].stocks[s].quantity > 0
  /\ portfolio[out.inst].total_balance # 0

\* C5: a view changes no portfolio and not the file and saves nothing; the
\* total it shows is the total_balance held in memory, and its table has a
\* row for exactly the holdings whose fetch succeeded, the holdings
\* themselves staying.
C5_ViewChangesNothing ==
  [][\A i \in Instances :
       (MenuStep(i) /\ out'.choice = <<"3">>)
       => /\ portfolio' = portfolio
          /\ file' = file
          /\ ~out'.saved
          /\ out'.op = IF Held(i) = {} THEN "view_empty" ELSE "viewed"
          /\ Held(i) = {} => (out'.nfetch = 0 /\ ~out'.exported)
          /\ Held(i) # {} =>
               /\ out'.total = portfolio[i].total_balance
               /\ DOMAIN out'.rows =
                    { s \in Held(i) : out'.fetched[s] \notin {None, 0} }]_vars

\* C5 happens: a view in which a fetch failed, its holding missing from the
\* table, and the total shown is not the holdings' value at the prices just
\* fetched.
C5_Witness ==
  /\ out.op = "viewed"
  /\ \E s \in Held(out.inst) : out.fetched[s] = None /\ s \notin DOMAIN out.rows
  /\ out.total # PassValue(portfolio[out.inst].stocks, out.fetched)
  /\ out.exported

\* C6: every holding's quantity is a positive integer.
C6_QuantityPositive ==
  \A i \in Instances :
    \A s \in Held(i) : portfolio[i].stocks[s].quantity > 0

\* The menu choices main recognises among ChoiceInputs, and the quantities
\* among QuantityInputs that are no integers.
RecognisedChoices == { <<"1">>, <<"2">>, <<"3">>, <<"4">>, <<" ", "4", " ">> }
NonIntegerTexts == { <<"1", ".", "5">>, <<"-">>, <<>> }

\* C7: an unrecognised choice, and choice 1 with a quantity that is no
\* integer, are reported and change nothing: no portfolio, not the file, no
\* fetch, no save, and the instance stays at the menu; an instance leaves
\* the menu only on Exit.
C7_InvalidInputNoEffect ==
  [][\A i \in Instances :
       MenuStep(i)
       => /\ out'.choice \notin RecognisedChoices
             => /\ out'.op = "invalid_choice"
                /\ portfolio' = portfolio /\ file' = file
                /\ out'.nfetch = 0 /\ ~out'.saved
                /\ pc'[i] = "menu"
          /\ (out'.choice = <<"1">> /\ out'.qtyIn \in NonIntegerTexts)
             => /\ out'.op = "invalid_input"
                /\ portfolio' = portfolio /\ file' = file
                /\ out'.nfetch = 0 /\ ~out'.saved
                /\ pc'[i] = "menu"
          /\ pc'[i] # "menu"
             => /\ pc'[i] = "done"
                /\ out'.choice \in { <<"4">>, <<" ", "4", " ">> }]_vars

\* C7 happens: a quantity that is no integer was typed for a portfolio that
\* has a holding.
C7_Witness ==
  /\ out.op = "invalid_input"
  /\ out.qtyIn = <<"1", ".", "5">>
  /\ Held(out.inst) # {}

\* C8: with two instances, a save leaves in the file the saving instance's
\* document and nothing else, and no step of one instance changes what the
\* other holds in memory: the last writer wins.
C8_LastWriterWins ==
  [][\A i \in Instances :
       (MenuStep(i) /\ out'.saved)
       => /\ file' = << dump(portfolio'[i]) >>
          /\ \A j \in Instances \ {i} : portfolio'[j] = portfolio[j]]_vars

\* C8 happens: instance 1 holds AB, which only its own add can have created
\* and saved; instance 2 has saved since, and the file has no AB.
C8_Witness ==
  /\ AB \in Held(1)
  /\ out.inst = 2
  /\ out.saved
  /\ file # <<>>
  /\ AB \notin { e.key : e \in file[1].stocks }

\* C9: every holding's purchase_price is a price a fetch returned when the
\* holding was created, and it is not zero.
C9_PurchasePriceNonzero ==
  \A i \in Instances :
    \A s \in Held(i) :
      /\ portfolio[i].stocks[s].purchase_price \in Prices \ {0}
      /\ s \in DOMAIN hist[i]
      /\ portfolio[i].stocks[s].purchase_price = hist[i][s].first

\* C9 happens: add_stock fetched a price of exactly 0 for a symbol that was
\* not held, and no holding was created.
C9_Witness ==
  /\ out.op = "add_failed"
  /\ out.price = 0
  /\ out.symbol \notin Held(out.inst)

\* C10: with one instance at the menu, the file and the portfolio in memory
\* agree: there is no file and the portfolio is the empty default, or the
\* file holds the portfolio in memory, which reads back as it is.
C10_FileAgreesWithMemory ==
  pc[1] = "menu"
  => IF file = <<>>
     THEN portfolio[1] = EmptyPortfolio
     ELSE /\ file = << dump(portfolio[1]) >>
          /\ load_portfolio(file) = portfolio[1]

\* C10 happens: a removal has just been saved, and a holding remains.
C10_Witness ==
  /\ pc[1] = "menu"
  /\ out.op = "removed"
  /\ Held(1) # {}
  /\ file # <<>>

====
